---- MODULE Spec2Model ----
(***************************************************************************)
(* Metrics aggregation, readiness scoring and projection of the web        *)
(* dashboard (App), together with the fetch boundary that publishes the    *)
(* five series (initial load effect, syncNow, useHealthData.fetchData).    *)
(*                                                                         *)
(* Numbers.  JavaScript numbers are IEEE doubles; the model computes with  *)
(* exact rationals [n, d] (d > 0) and uses d = 0 for NaN, whose every      *)
(* comparison is false as in JavaScript.  Math.round is floor(x + 1/2).    *)
(* Dates are ISO strings in the code, ordered by the default string sort;  *)
(* the model uses day numbers 1, 2, ... with the same order.               *)
(* An optional JSON field is Num(v), Null (JSON null) or Undef (key        *)
(* missing).                                                               *)
(*                                                                         *)
(* Charts.  A render also runs the chart shapers (TrendLine, StackedBar,   *)
(* AIChart) on the series and on the coach's chart spec.  A value handed   *)
(* to a chart may be a string, modelled as its sequence of characters;     *)
(* Number(v) parses strings of digits and gives NaN for any other          *)
(* non-empty string.  A headline KPI string is modelled as its number and  *)
(* its unit, or the placeholder.                                           *)
(***************************************************************************)
EXTENDS Integers, Sequences, FiniteSets, TLC

VARIABLES
    sleepRows, hr7, hrIntra, steps7, cal7,  \* App's useState series
    model,                                  \* App's model status
    chatLog,                                \* App's chat log, one tag per appended line
    view,                                   \* what the last render computed
    rendered,                               \* FALSE while a state change awaits its render
    loadPc,                                 \* the mount effect's next request
    sync,                                   \* each syncNow call's position
    srv,                                    \* version of the data the backend holds
    origin,                                 \* per series, the fetch round that set it
    lastPublisher,                          \* the fetch round that published last
    lastFetch,                              \* requests and failures of the round settled last
    hk,                                     \* useHealthData's useState values
    hmount,                                 \* useHealthData's mount-time fetchData call
    hsync,                                  \* each OuraAppleDashboard.handleSync call's position
    toasts,                                 \* the dashboard's toasts, in order
    aiSpec,                                 \* App's chart spec from the coach (null at first)
    page,                                   \* the root component the page has mounted
    btn,                                    \* the dashboard's SyncButton: state, pending reset timers
    chat,                                   \* OllamaChat's useState values and its postChat calls
    mock                                    \* SleepCoachDashboard's useMockIfNeeded instances

series == <<sleepRows, hr7, hrIntra, steps7, cal7>>

fetchVars == <<model, chatLog, loadPc, sync, srv, origin, lastPublisher, lastFetch>>

\* App's own state, and the hook's (the two dashboards are separate programs)
appVars == <<sleepRows, hr7, hrIntra, steps7, cal7, model, chatLog, view, rendered,
             loadPc, sync, aiSpec>>

hookVars == <<hk, hmount, hsync, toasts, btn>>

\* State of the components outside App and the hook's dashboard, and the page
otherVars == <<page, chat, mock>>

vars == <<sleepRows, hr7, hrIntra, steps7, cal7, view, rendered, fetchVars, hookVars,
          aiSpec, otherVars>>

(***************************** optional fields *****************************)
Num(v) == [k |-> "num", v |-> v]
Null == [k |-> "null", v |-> 0]
Undef == [k |-> "undef", v |-> 0]

\* x != null, and the left side of x ?? y
Present(x) == x.k = "num"

\* x || 0 for a numeric field: null, undefined and 0 all give 0
OrZero(x) == IF x.k = "num" THEN x.v ELSE 0

(******************************** rationals ********************************)
RECURSIVE Gcd(_, _)
Gcd(a, b) == IF b = 0 THEN a ELSE Gcd(b, a % b)

Abs(x) == IF x < 0 THEN -x ELSE x

QNaN == [n |-> 0, d |-> 0]

IsNaN(q) == q.d = 0

Q(n, d) ==
    IF d = 0 THEN QNaN
    ELSE LET g == Gcd(Abs(n), Abs(d))
             s == IF d < 0 THEN -1 ELSE 1
         IN  [n |-> s * (n \div g), d |-> s * (d \div g)]

QInt(i) == [n |-> i, d |-> 1]

QAdd(a, b) == Q(a.n * b.d + b.n * a.d, a.d * b.d)

QSub(a, b) == Q(a.n * b.d - b.n * a.d, a.d * b.d)

QMul(a, b) == Q(a.n * b.n, a.d * b.d)

\* a / b of two finite numbers with b # 0 (the callers guard b)
QDiv(a, b) == IF IsNaN(a) \/ IsNaN(b) THEN QNaN ELSE Q(a.n * b.d, a.d * b.n)

\* a < b; false when either side is NaN
QLt(a, b) == a.n * b.d < b.n * a.d

QGt(a, b) == QLt(b, a)

QLe(a, b) == ~IsNaN(a) /\ ~IsNaN(b) /\ ~QLt(b, a)

QMin(a, b) == IF QLt(b, a) THEN b ELSE a

QMax(a, b) == IF QLt(a, b) THEN b ELSE a

\* Math.max(0, Math.min(1, x))
Clamp01(x) == IF IsNaN(x) THEN QNaN ELSE QMax(QInt(0), QMin(QInt(1), x))

\* Math.round(x) for a finite x: floor(x + 1/2)
Round(x) == (2 * x.n + x.d) \div (2 * x.d)

(******************************** sequences ********************************)
RECURSIVE SumSeq(_)
SumSeq(s) == IF s = <<>> THEN 0 ELSE s[1] + SumSeq(Tail(s))

\* arr.slice(-k)
SliceLast(s, k) ==
    IF Len(s) <= k THEN s ELSE SubSeq(s, Len(s) - k + 1, Len(s))

RECURSIVE SortAsc(_)
SortAsc(S) ==
    IF S = {} THEN <<>>
    ELSE LET m == CHOOSE x \in S : \A y \in S : x <= y
         IN  <<m>> \o SortAsc(S \ {m})

\* arr.indexOf(x), 0-based, -1 when x is not in arr
IndexOf(s, x) ==
    IF \E i \in 1..Len(s) : s[i] = x
    THEN (CHOOSE i \in 1..Len(s) : s[i] = x /\ \A j \in 1..(i - 1) : s[j] # x) - 1
    ELSE -1

Max(a, b) == IF a >= b THEN a ELSE b

(************************ App: aligned dates, stages ***********************)
\* mutant: slice(0, 7), the seven earliest dates
sleepDatesOf_first7(rows) ==
    SubSeq(SortAsc({rows[i].date : i \in 1..Len(rows)}), 1,
           IF Cardinality({rows[i].date : i \in 1..Len(rows)}) < 7
           THEN Cardinality({rows[i].date : i \in 1..Len(rows)}) ELSE 7)

\* sleepDates: [...new Set(sleepRows.map(r => r.date))].sort().slice(-7)
sleepDatesOf(rows) ==
    SliceLast(SortAsc({rows[i].date : i \in 1..Len(rows)}), 7)

\* sleepByDate[d]?.[s] || 0: the minutes of all rows of date d and stage s
RECURSIVE sleepByDate(_, _, _)
sleepByDate(rows, d, s) ==
    IF rows = <<>> THEN 0
    ELSE (IF rows[1].date = d /\ rows[1].stage = s THEN rows[1].mins ELSE 0)
         + sleepByDate(Tail(rows), d, s)

\* ['Light sleep','Deep sleep','REM sleep'].reduce((a,s) => a + (sleepByDate[d]?.[s]||0), 0)
sleepTotal(rows, d) ==
    sleepByDate(rows, d, "Light sleep") + sleepByDate(rows, d, "Deep sleep")
        + sleepByDate(rows, d, "REM sleep")

(************************** App: readiness (headline) **********************)
\* mutant: a goal of seven hours
goal_sevenHours == 7 * 60

goal == 8 * 60

\* the last aligned date, as a list of zero or one date
lastDate(rows) == SliceLast(sleepDatesOf(rows), 1)

sleepMin(rows) ==
    IF lastDate(rows) = <<>> THEN 0 ELSE sleepTotal(rows, lastDate(rows)[1])

\* mutant: the Math.min(1, ...) cap is lost
sleepScore_unclamped(rows) == Q(sleepMin(rows), goal)

\* Math.max(0, Math.min(1, (goal ? sleepMin/goal : 0.5)))
sleepScore(rows) == Clamp01(IF goal # 0 THEN Q(sleepMin(rows), goal) ELSE Q(5, 10))

\* hr7.map(r => r.avg_bpm).filter(v => v != null)
RECURSIVE hrAvgVals(_)
hrAvgVals(hr) ==
    IF hr = <<>> THEN <<>>
    ELSE (IF Present(hr[1].avg_bpm) THEN <<hr[1].avg_bpm.v>> ELSE <<>>)
         \o hrAvgVals(Tail(hr))

\* mutant: absent readings are counted in the denominator
weeklyAvg_allCount(hr) ==
    IF Len(hrAvgVals(hr)) # 0 THEN Q(SumSeq(hrAvgVals(hr)), Len(hr)) ELSE QInt(0)

weeklyAvg(hr) ==
    IF Len(hrAvgVals(hr)) # 0
    THEN Q(SumSeq(hrAvgVals(hr)), Len(hrAvgVals(hr)))
    ELSE QInt(0)

yesterday(hr) ==
    IF Len(hrAvgVals(hr)) # 0
    THEN (IF Present(hr[Len(hr)].avg_bpm)
          THEN QInt(hr[Len(hr)].avg_bpm.v)
          ELSE weeklyAvg(hr))
    ELSE weeklyAvg(hr)

\* mutant: the deviation saturates at 10 bpm
hrScore_div10(hr) ==
    Clamp01(QSub(QInt(1), QDiv(QSub(yesterday(hr), weeklyAvg(hr)), QInt(10))))

hrScore(hr) ==
    Clamp01(QSub(QInt(1), QDiv(QSub(yesterday(hr), weeklyAvg(hr)), QInt(20))))

\* steps7.map(r => r.steps || 0)
stepsVals(steps) == [i \in 1..Len(steps) |-> OrZero(steps[i].steps)]

\* mutant: the mean leaves out the last day
sAvg_beforeLast(steps) ==
    IF Len(steps) > 1
    THEN Q(SumSeq(SubSeq(stepsVals(steps), 1, Len(steps) - 1)), Len(steps) - 1)
    ELSE QInt(0)

sAvg(steps) ==
    IF Len(steps) # 0 THEN Q(SumSeq(stepsVals(steps)), Len(steps)) ELSE QInt(0)

\* mutant: rel defaults to 0 when the average is 0
rel_zeroDefault(steps) ==
    IF sAvg(steps).n # 0
    THEN QDiv(QInt(stepsVals(steps)[Len(steps)]), sAvg(steps))
    ELSE QInt(0)

rel(steps) ==
    IF sAvg(steps).n # 0
    THEN QDiv(QInt(stepsVals(steps)[Len(steps)]), sAvg(steps))
    ELSE QInt(1)

\* mutant: the upper breakpoint is inclusive
stepsScoreOf_inclusive(r) ==
    IF ~QLt(r, Q(135, 100)) /\ ~IsNaN(r) THEN Q(8, 10)
    ELSE IF QLt(r, Q(6, 10)) THEN Q(86, 100)
    ELSE IF QLt(r, Q(85, 100)) \/ QGt(r, Q(115, 100)) THEN Q(94, 100)
    ELSE QInt(1)

\* let stepsScore = 1.0; if (rel>1.35) ...; else if (rel<0.6) ...; else if (rel<0.85||rel>1.15) ...
stepsScoreOf(r) ==
    IF QGt(r, Q(135, 100)) THEN Q(8, 10)
    ELSE IF QLt(r, Q(6, 10)) THEN Q(86, 100)
    ELSE IF QLt(r, Q(85, 100)) \/ QGt(r, Q(115, 100)) THEN Q(94, 100)
    ELSE QInt(1)

stepsScore(steps) == stepsScoreOf(rel(steps))

\* Math.round(100*(0.5*sleepScore + 0.3*hrScore + 0.2*stepsScore))
composite(s, h, st) ==
    Round(QMul(QInt(100),
               QAdd(QAdd(QMul(Q(5, 10), s), QMul(Q(3, 10), h)), QMul(Q(2, 10), st))))

readiness(rows, hr, steps) ==
    composite(sleepScore(rows), hrScore(hr), stepsScore(steps))

(********************* App: readiness projection (inline) ******************)
\* hrLabels = hr7.map(r => r.date)
hrLabels(hr) == [i \in 1..Len(hr) |-> hr[i].date]

\* hrIdx = Math.max(0, hrLabels.indexOf(d)), 0-based
hrIdx(hr, d) == Max(0, IndexOf(hrLabels(hr), d))

\* weekly = avg.length ? avg.reduce(...)/avg.length : 0.9
projWeekly(hr) ==
    IF Len(hrAvgVals(hr)) # 0
    THEN Q(SumSeq(hrAvgVals(hr)), Len(hrAvgVals(hr)))
    ELSE Q(9, 10)

\* h = hrIdx<hr7.length && hr7[hrIdx].avg_bpm!=null ? clamp(1-((avg_bpm-weekly)/20)) : 0.9
projH(hr, d) ==
    IF hrIdx(hr, d) < Len(hr) /\ Present(hr[hrIdx(hr, d) + 1].avg_bpm)
    THEN Clamp01(QSub(QInt(1),
                      QDiv(QSub(QInt(hr[hrIdx(hr, d) + 1].avg_bpm.v), projWeekly(hr)),
                           QInt(20))))
    ELSE Q(9, 10)

\* A steps field used in arithmetic as it is: null counts as 0, undefined is NaN
AsNumber(x) == IF x.k = "num" THEN QInt(x.v) ELSE IF x.k = "null" THEN QInt(0) ELSE QNaN

\* sVal = steps7[hrIdx] ? steps7[hrIdx].steps : (steps7[steps7.length-1]?.steps||0)
projSVal(hr, steps, d) ==
    IF hrIdx(hr, d) < Len(steps)
    THEN AsNumber(steps[hrIdx(hr, d) + 1].steps)
    ELSE IF Len(steps) # 0 THEN QInt(OrZero(steps[Len(steps)].steps)) ELSE QInt(0)

\* sAvg = steps7.length ? steps7.map(r=>r.steps||0).reduce(...)/steps7.length : sVal
projSAvg(hr, steps, d) ==
    IF Len(steps) # 0
    THEN Q(SumSeq(stepsVals(steps)), Len(steps))
    ELSE projSVal(hr, steps, d)

\* rel = sAvg ? (sVal/sAvg) : 1   (NaN and 0 are falsy)
projRel(hr, steps, d) ==
    IF ~IsNaN(projSAvg(hr, steps, d)) /\ projSAvg(hr, steps, d).n # 0
    THEN QDiv(projSVal(hr, steps, d), projSAvg(hr, steps, d))
    ELSE QInt(1)

\* let st = 1.0; if (rel>1.35) st=.8; else if (rel<0.6) st=.86; else if (rel<0.85||rel>1.15) st=.94
projSt(r) ==
    IF QGt(r, Q(135, 100)) THEN Q(8, 10)
    ELSE IF QLt(r, Q(6, 10)) THEN Q(86, 100)
    ELSE IF QLt(r, Q(85, 100)) \/ QGt(r, Q(115, 100)) THEN Q(94, 100)
    ELSE QInt(1)

\* one element of hist: the score of aligned date d
projScore(rows, hr, steps, d) ==
    composite(Clamp01(Q(sleepTotal(rows, d), 480)),
              projH(hr, d),
              projSt(projRel(hr, steps, d)))

hist(rows, hr, steps) ==
    LET ds == sleepDatesOf(rows)
    IN  [i \in 1..Len(ds) |-> projScore(rows, hr, steps, ds[i])]

lastR(h) == IF Len(h) # 0 THEN h[Len(h)] ELSE 70

meanR(h) == IF Len(h) # 0 THEN Round(Q(SumSeq(h), Len(h))) ELSE 70

\* mutant: the weights of the last score and the mean are exchanged
projStep_swapped(prev, mean) ==
    Round(QAdd(QMul(Q(4, 10), QInt(prev)), QMul(Q(6, 10), QInt(mean))))

\* mutant: Math.ceil in place of Math.round
projStep_ceil(prev, mean) == -((-(6 * prev + 4 * mean)) \div 10)

\* mutant: the mean's term is subtracted
projStep_minus(prev, mean) ==
    Round(QSub(QMul(Q(6, 10), QInt(prev)), QMul(Q(4, 10), QInt(mean))))

\* Math.round(0.6*prev + 0.4*meanR)
projStep(prev, mean) ==
    Round(QAdd(QMul(Q(6, 10), QInt(prev)), QMul(Q(4, 10), QInt(mean))))

proj1(h) == projStep(lastR(h), meanR(h))

proj2(h) == projStep(proj1(h), meanR(h))

proj3(h) == projStep(proj2(h), meanR(h))

\* [...hist.slice(-3), proj1, proj2, proj3]
projData(h) == SliceLast(h, 3) \o <<proj1(h), proj2(h), proj3(h)>>

DateLabel(d) == [kind |-> "date", d |-> d]
ForecastLabel(k) == [kind |-> "D+", d |-> k]

\* mutant: the date labels are not cut to the last three
projLabels_allDates(rows) ==
    LET ds == sleepDatesOf(rows)
    IN  [i \in 1..Len(ds) |-> DateLabel(ds[i])]
        \o <<ForecastLabel(1), ForecastLabel(2), ForecastLabel(3)>>

\* [...sleepDates.slice(-3),'D+1','D+2','D+3']
projLabels(rows) ==
    LET last3 == SliceLast(sleepDatesOf(rows), 3)
    IN  [i \in 1..Len(last3) |-> DateLabel(last3[i])]
        \o <<ForecastLabel(1), ForecastLabel(2), ForecastLabel(3)>>

(************************* App: headline KPI strings ***********************)
\* '--', and a number followed by its unit (Math.round(x) + ' min', ...)
Placeholder == [kind |-> "--", n |-> 0, unit |-> ""]
KpiValue(n, unit) == [kind |-> "value", n |-> n, unit |-> unit]

kpiSleepMin(rows) ==
    IF lastDate(rows) = <<>> THEN Placeholder
    ELSE KpiValue(Round(QInt(sleepTotal(rows, lastDate(rows)[1]))), " min")

\* mutant: an absent reading is shown as 0 bpm
kpiHr_zero(hr) ==
    IF Len(hr) = 0 THEN Placeholder
    ELSE KpiValue(Round(QInt(OrZero(hr[Len(hr)].avg_bpm))), " bpm")

kpiHr(hr) ==
    IF Len(hr) = 0 THEN Placeholder
    ELSE IF Present(hr[Len(hr)].avg_bpm)
         THEN KpiValue(Round(QInt(hr[Len(hr)].avg_bpm.v)), " bpm")
         ELSE Placeholder

\* (last.steps || 0).toLocaleString()
kpiSteps(steps) ==
    IF Len(steps) = 0 THEN Placeholder
    ELSE KpiValue(OrZero(steps[Len(steps)].steps), "")

kpiCal(cal) ==
    IF Len(cal) = 0 THEN Placeholder
    ELSE KpiValue(Round(QInt(OrZero(cal[Len(cal)].kcal))), " kcal")

(************************ property reads that can throw ********************)
\* arr[i] is undefined (0-based i), so that arr[i].field throws
ElemUndefined(arr, i) == i < 0 \/ i >= Len(arr)

\* mutant: the hrAvg.length guard of line 90 is dropped
yesterdayReads_unguarded(hr) == Len(hrAvgVals(hr)) >= 0

\* whether a read of the form arr[i].field is evaluated
yesterdayReads(hr) == Len(hrAvgVals(hr)) # 0
kpiReads(arr) == Len(arr) # 0
projHReads(hr, d) == hrIdx(hr, d) < Len(hr)
projSValReads(hr, steps, d) == hrIdx(hr, d) < Len(steps)

\* a TypeError is thrown somewhere in the function body
RenderThrows(rows, hr, steps, cal) ==
    \/ kpiReads(hr) /\ ElemUndefined(hr, Len(hr) - 1)
    \/ kpiReads(steps) /\ ElemUndefined(steps, Len(steps) - 1)
    \/ kpiReads(cal) /\ ElemUndefined(cal, Len(cal) - 1)
    \/ yesterdayReads(hr) /\ ElemUndefined(hr, Len(hr) - 1)
    \/ LET ds == sleepDatesOf(rows)
       IN  \E i \in 1..Len(ds) :
              \/ projHReads(hr, ds[i]) /\ ElemUndefined(hr, hrIdx(hr, ds[i]))
              \/ projSValReads(hr, steps, ds[i]) /\ ElemUndefined(steps, hrIdx(hr, ds[i]))

(******************************* chart values ******************************)
\* A value handed to a chart is Num(v), Null, Undef, a string (its sequence
\* of characters) or the number NaN; a chart emits Num(v), Null or NaNVal.
Str(cs) == [k |-> "str", s |-> cs]
NaNVal == [k |-> "nan", v |-> 0]
Arr(s) == [k |-> "arr", a |-> s]

Digits == <<"0", "1", "2", "3", "4", "5", "6", "7", "8", "9">>
IsDigit(c) == \E i \in 1..Len(Digits) : Digits[i] = c
DigitVal(c) == (CHOOSE i \in 1..Len(Digits) : Digits[i] = c) - 1

RECURSIVE Decimal(_)
Decimal(cs) ==
    IF cs = <<>> THEN 0
    ELSE 10 * Decimal(SubSeq(cs, 1, Len(cs) - 1)) + DigitVal(cs[Len(cs)])

\* Number(v): '' is 0, a string of digits is its value, any other string
\* (of the characters the model uses) is NaN; null is 0, undefined is NaN
ToNumber(x) ==
    CASE x.k = "num" -> x
      [] x.k = "null" -> Num(0)
      [] x.k = "str" ->
            IF x.s = <<>> THEN Num(0)
            ELSE IF \A i \in 1..Len(x.s) : IsDigit(x.s[i]) THEN Num(Decimal(x.s))
            ELSE NaNVal
      [] OTHER -> NaNVal

\* v == null
Nullish(x) == x.k \in {"null", "undef"}

\* !v
Falsy(x) ==
    \/ Nullish(x)
    \/ x.k = "nan"
    \/ x.k = "num" /\ x.v = 0
    \/ x.k = "str" /\ x.s = <<>>

\* x || []  and the default of a destructured parameter
OrEmpty(x) == IF x.k = "arr" THEN x.a ELSE <<>>

\* r.field, undefined when the record has no such key
Field(r, name) == IF name \in DOMAIN r THEN r[name] ELSE Undef

(***************************** the chart shapers ***************************)
\* v => (v == null || v === '' ? null : Number(v))
TrendLineValue(v) ==
    IF Nullish(v) \/ (v.k = "str" /\ v.s = <<>>) THEN Null ELSE ToNumber(v)

\* v => Number(v || 0)
StackedBarValue(v) == ToNumber(IF Falsy(v) THEN Num(0) ELSE v)

\* datasets.map(d => ({...d, data: (d.data || []).map(...)})); data = {labels, datasets: ds}
TrendLine(labels, datasets) ==
    [kind |-> "line",
     labels |-> labels,
     datasets |->
        [i \in 1..Len(datasets) |->
            [label |-> datasets[i].label,
             data |-> [j \in 1..Len(OrEmpty(datasets[i].data)) |->
                          TrendLineValue(OrEmpty(datasets[i].data)[j])]]]]

StackedBar(labels, datasets) ==
    [kind |-> "bar",
     labels |-> labels,
     datasets |->
        [i \in 1..Len(datasets) |->
            [label |-> datasets[i].label,
             data |-> [j \in 1..Len(OrEmpty(datasets[i].data)) |->
                          StackedBarValue(OrEmpty(datasets[i].data)[j])]]]]

Dataset(label, vals) == [label |-> label, data |-> Arr(vals)]

NoChart == [kind |-> "none", labels |-> <<>>, datasets |-> <<>>]

\* AIChart: nothing without a spec; StackedBar for a stacked bar, else TrendLine
AIChart(spec) ==
    IF spec.k = "null" THEN NoChart
    ELSE IF (IF spec.type = "stackedBar" THEN "bar" ELSE spec.type) = "bar" /\ spec.stacked
         THEN StackedBar(OrEmpty(spec.labels), OrEmpty(spec.datasets))
         ELSE TrendLine(OrEmpty(spec.labels), OrEmpty(spec.datasets))

(************************** App: the chart inputs **************************)
Nums(s) == [i \in 1..Len(s) |-> Num(s[i])]

\* sleepDatasets
sleepDatasets(rows) ==
    LET ds == sleepDatesOf(rows)
        stage(s) == Dataset(s, Nums([i \in 1..Len(ds) |-> sleepByDate(rows, ds[i], s)]))
    IN  <<stage("Light sleep"), stage("Deep sleep"), stage("REM sleep")>>

\* r => (r.x != null ? r.x : null)
NullIfAbsent(x) == IF ~Nullish(x) THEN x ELSE Null

hrAvg(hr) == [i \in 1..Len(hr) |-> NullIfAbsent(Field(hr[i], "avg_bpm"))]
hrMin(hr) == [i \in 1..Len(hr) |-> NullIfAbsent(Field(hr[i], "min_bpm"))]
hrMax(hr) == [i \in 1..Len(hr) |-> NullIfAbsent(Field(hr[i], "max_bpm"))]

stepsLabels(steps) == [i \in 1..Len(steps) |-> steps[i].date]

calLabels(cal) == [i \in 1..Len(cal) |-> cal[i].date]
calVals(cal) == [i \in 1..Len(cal) |-> OrZero(cal[i].kcal)]

\* dayjs(s.ts).format('HH:mm'): the time of day of the sample
TimeLabel(t) == [kind |-> "HH:mm", t |-> t]

hrDayLabels(intra) == [i \in 1..Len(intra) |-> TimeLabel(intra[i].ts)]
hrDayVals(intra) == [i \in 1..Len(intra) |-> Field(intra[i], "avg_bpm")]

\* sleepDates.map(d => total(d) - 480)
sleepDebt(rows) ==
    LET ds == sleepDatesOf(rows)
    IN  [i \in 1..Len(ds) |-> sleepTotal(rows, ds[i]) - 480]

\* The charts of one render, by panel
Charts(rows, hr, intra, steps, cal, ai, dates, labels, data) ==
    [sleepStages |-> StackedBar(dates, sleepDatasets(rows)),
     hr          |-> TrendLine(hrLabels(hr),
                               <<Dataset("Avg", hrAvg(hr)), Dataset("Min", hrMin(hr)),
                                 Dataset("Max", hrMax(hr))>>),
     steps       |-> TrendLine(stepsLabels(steps),
                               <<Dataset("Steps", Nums(stepsVals(steps)))>>),
     cal         |-> TrendLine(calLabels(cal), <<Dataset("Total kcal", Nums(calVals(cal)))>>),
     intraday    |-> TrendLine(hrDayLabels(intra),
                               <<Dataset("Avg BPM", hrDayVals(intra))>>),
     sleepDebt   |-> TrendLine(dates,
                               <<Dataset("minutes vs 8h goal", Nums(sleepDebt(rows)))>>),
     projection  |-> TrendLine(labels, <<Dataset("Readiness", Nums(data))>>),
     ai          |-> AIChart(ai)]

(******************************* App: render *******************************)
\* The values the App function body computes from the current state
RenderView(rows, hr, intra, steps, cal, ai) ==
    LET dates == sleepDatesOf(rows)
        labels == projLabels(rows)
        data == projData(hist(rows, hr, steps))
    IN  [threw       |-> RenderThrows(rows, hr, steps, cal),
         sleepDates  |-> dates,
         kpiSleepMin |-> kpiSleepMin(rows),
         kpiHr       |-> kpiHr(hr),
         kpiSteps    |-> kpiSteps(steps),
         kpiCal      |-> kpiCal(cal),
         readiness   |-> readiness(rows, hr, steps),
         projLabels  |-> labels,
         projData    |-> data,
         charts      |-> Charts(rows, hr, intra, steps, cal, ai, dates, labels, data)]

\* React re-runs App after a state change
Render ==
    /\ ~rendered
    /\ view' = RenderView(sleepRows, hr7, hrIntra, steps7, cal7, aiSpec)
    /\ rendered' = TRUE
    /\ UNCHANGED <<series, fetchVars, hookVars, aiSpec, otherVars>>

(**************************** the fetch boundary ***************************)
MaxSyncs == 1

SeriesNames == {"sleep", "hr7", "hrIntra", "steps", "cal"}

SleepRow(d, s, m) == [date |-> d, stage |-> s, mins |-> m]
HrRec(d, a) == [date |-> d, avg_bpm |-> a]
StepsRec(d, v) == [date |-> d, steps |-> v]
CalRec(d, k) == [date |-> d, kcal |-> k]
IntraSample(t, a) == [ts |-> t, avg_bpm |-> a]

\* What the backend answers while it holds version v of the data: v + 1 days.
\* (j.data || [] and j.samples || [] of a resolved request.)
ServerData(name, v) ==
    CASE name = "sleep"   -> [d \in 1..(v + 1) |-> SleepRow(d, "Light sleep", 400 + 20 * d)]
      [] name = "hr7"     -> [d \in 1..(v + 1) |-> HrRec(d, Num(60 + 2 * d))]
      [] name = "hrIntra" -> [d \in 1..(v + 1) |-> IntraSample(d, Num(70 + d))]
      [] name = "steps"   -> [d \in 1..(v + 1) |-> StepsRec(d, Num(5 + d))]
      [] name = "cal"     -> [d \in 1..(v + 1) |-> CalRec(d, Num(2000 + d))]

\* The requests of one Promise.all that reject: any one of them, or all
FailureSets == {{n} : n \in SeriesNames} \cup {SeriesNames}

\* Fetch rounds: 0 is the mount effect, k >= 1 the k-th syncNow call
LoadRound == 0
NoRound == -1

NoFetch == [round |-> NoRound, requested |-> {}, failed |-> {}]

\* The setters of the names in S are called with version v's data, then App
\* renders again; the round is recorded as the origin of what it set.
Publish(S, v, round) ==
    /\ sleepRows' = IF "sleep" \in S THEN ServerData("sleep", v) ELSE sleepRows
    /\ hr7' = IF "hr7" \in S THEN ServerData("hr7", v) ELSE hr7
    /\ hrIntra' = IF "hrIntra" \in S THEN ServerData("hrIntra", v) ELSE hrIntra
    /\ steps7' = IF "steps" \in S THEN ServerData("steps", v) ELSE steps7
    /\ cal7' = IF "cal" \in S THEN ServerData("cal", v) ELSE cal7
    /\ view' = RenderView(sleepRows', hr7', hrIntra', steps7', cal7', aiSpec)
    /\ rendered' = TRUE
    /\ origin' = [n \in SeriesNames |-> IF n \in S THEN round ELSE origin[n]]
    /\ lastPublisher' = IF S = {} THEN lastPublisher ELSE round

\* The order of the awaits in the mount effect
LoadNext(p) ==
    CASE p = "model" -> "sleep"
      [] p = "sleep" -> "hr7"
      [] p = "hr7" -> "hrIntra"
      [] p = "hrIntra" -> "steps"
      [] p = "steps" -> "cal"
      [] p = "cal" -> "done"

\* try { const j = await getModel(); setModel(j.ollama || {}); } catch {}
LoadModelResolve ==
    /\ loadPc = "model"
    /\ model' = "fetched"
    /\ loadPc' = LoadNext(loadPc)
    /\ UNCHANGED <<series, view, rendered, chatLog, sync, srv, origin, lastPublisher,
                   lastFetch, hookVars, aiSpec, otherVars>>

LoadModelReject ==
    /\ loadPc = "model"
    /\ loadPc' = LoadNext(loadPc)
    /\ UNCHANGED <<series, view, rendered, model, chatLog, sync, srv, origin,
                   lastPublisher, lastFetch, hookVars, aiSpec, otherVars>>

\* try { const j = await getX(); setX(j.data || []); } catch {}  (resolved)
LoadResolve ==
    /\ loadPc \in SeriesNames
    /\ Publish({loadPc}, srv, LoadRound)
    /\ lastFetch' = [round |-> LoadRound, requested |-> {loadPc}, failed |-> {}]
    /\ loadPc' = LoadNext(loadPc)
    /\ UNCHANGED <<model, chatLog, sync, srv, hookVars, aiSpec, otherVars>>

\* the same request rejected: the catch swallows it, the series is not set
LoadReject ==
    /\ loadPc \in SeriesNames
    /\ lastFetch' = [round |-> LoadRound, requested |-> {loadPc}, failed |-> {loadPc}]
    /\ loadPc' = LoadNext(loadPc)
    /\ UNCHANGED <<series, view, rendered, model, chatLog, sync, srv, origin,
                   lastPublisher, hookVars, aiSpec, otherVars>>

\* syncNow is called (the button is never disabled): log, then await postSync()
SyncClick(k) ==
    /\ page = "App"
    /\ sync[k] = "idle"
    /\ \A j \in 1..(k - 1) : sync[j] # "idle"
    /\ sync' = [sync EXCEPT ![k] = "posting"]
    /\ chatLog' = Append(chatLog, "syncing")
    /\ UNCHANGED <<series, view, rendered, model, loadPc, srv, origin, lastPublisher,
                   lastFetch, hookVars, aiSpec, otherVars>>

\* postSync resolved: the backend has synced; log, issue the five requests
\* together and await Promise.all of them
PostSyncResolve(k) ==
    /\ sync[k] = "posting"
    /\ srv' = srv + 1
    /\ sync' = [sync EXCEPT ![k] = "reloading"]
    /\ chatLog' = Append(chatLog, "complete")
    /\ UNCHANGED <<series, view, rendered, model, loadPc, origin, lastPublisher,
                   lastFetch, hookVars, aiSpec, otherVars>>

\* mutant: the rejection goes unreported
PostSyncReject_silent(k) ==
    /\ sync[k] = "posting"
    /\ sync' = [sync EXCEPT ![k] = "failed"]
    /\ UNCHANGED <<series, view, rendered, model, chatLog, loadPc, srv, origin,
                   lastPublisher, lastFetch, hookVars, aiSpec, otherVars>>

\* postSync rejected: catch (e) logs the failure, nothing is requested
PostSyncReject(k) ==
    /\ sync[k] = "posting"
    /\ sync' = [sync EXCEPT ![k] = "failed"]
    /\ chatLog' = Append(chatLog, "failed")
    /\ UNCHANGED <<series, view, rendered, model, loadPc, srv, origin, lastPublisher,
                   lastFetch, hookVars, aiSpec, otherVars>>

\* Promise.all resolved (all five requests did): the five setters run together
ReloadResolve(k) ==
    /\ sync[k] = "reloading"
    /\ Publish(SeriesNames, srv, k)
    /\ lastFetch' = [round |-> k, requested |-> SeriesNames, failed |-> {}]
    /\ sync' = [sync EXCEPT ![k] = "done"]
    /\ UNCHANGED <<model, chatLog, loadPc, srv, hookVars, aiSpec, otherVars>>

\* Promise.all rejected (the requests in F did): catch (e) logs, no setter runs
ReloadReject(k, F) ==
    /\ sync[k] = "reloading"
    /\ F # {}
    /\ lastFetch' = [round |-> k, requested |-> SeriesNames, failed |-> F]
    /\ sync' = [sync EXCEPT ![k] = "failed"]
    /\ chatLog' = Append(chatLog, "failed")
    /\ UNCHANGED <<series, view, rendered, model, loadPc, srv, origin, lastPublisher, hookVars, aiSpec, otherVars>>

(********************************* OllamaChat ******************************)
\* useState: the greeting, inputMessage '', isLoading false; no postChat call
\* is in flight.  A message is modelled by its type and, for an AI message,
\* its origin; the input by its characters.
ChatInit ==
    chat = [messages |-> <<"greeting">>, inputMessage |-> <<>>, isLoading |-> FALSE,
            inflight |-> 0]

\* Accepted messages that a run follows
MaxSends == 4

\* What the user can have typed: nothing, a blank, a question
ChatTexts == {<<>>, <<" ">>, <<"h", "i">>, <<" ", "h", "i", " ">>}

\* String.prototype.trim
RECURSIVE Trim(_)
Trim(t) ==
    IF t = <<>> THEN t
    ELSE IF Head(t) = " " THEN Trim(Tail(t))
    ELSE IF t[Len(t)] = " " THEN Trim(SubSeq(t, 1, Len(t) - 1))
    ELSE t

\* <input disabled={isLoading}>, <button disabled={!inputMessage.trim() || isLoading}>
ChatInputDisabled == chat.isLoading
ChatButtonDisabled == Trim(chat.inputMessage) = <<>> \/ chat.isLoading

\* the negation of handleSendMessage's early return
SendAccepted(c) == ~(Trim(c.inputMessage) = <<>> \/ c.isLoading)

UserMessages(c) == Cardinality({i \in 1..Len(c.messages) : c.messages[i] = "user"})

\* mutant: the send neither clears the input nor sets isLoading
AfterSend_notLoading(c) ==
    [c EXCEPT !.messages = Append(c.messages, "user"), !.inflight = c.inflight + 1]

\* handleSendMessage up to its await: the user message is appended, the
\* input cleared, isLoading set, and postChat called
AfterSend(c) ==
    [messages |-> Append(c.messages, "user"), inputMessage |-> <<>>, isLoading |-> TRUE,
     inflight |-> c.inflight + 1]

\* handleSendMessage as an event handler: React renders again before the
\* next event, so each call reads the current inputMessage and isLoading
HandleSendMessage ==
    /\ UserMessages(chat) < MaxSends
    /\ chat' = IF SendAccepted(chat) THEN AfterSend(chat) ELSE chat
    /\ UNCHANGED <<series, view, rendered, fetchVars, hookVars, aiSpec, page, mock>>

\* onChange: the user edits the input
ChatType(t) ==
    /\ ~ChatInputDisabled
    /\ chat' = [chat EXCEPT !.inputMessage = t]
    /\ UNCHANGED <<series, view, rendered, fetchVars, hookVars, aiSpec, page, mock>>

\* onKeyPress with Enter in the input
ChatEnterKey == ~ChatInputDisabled /\ HandleSendMessage

\* onClick of the send button
ChatSendClick == ~ChatButtonDisabled /\ HandleSendMessage

\* postChat settled: the response, or the apology of the catch branch, is
\* appended; finally setIsLoading(false)
PostChatSettle(msg) ==
    /\ chat.inflight > 0
    /\ chat' = [chat EXCEPT !.messages = Append(chat.messages, msg), !.isLoading = FALSE,
                            !.inflight = chat.inflight - 1]
    /\ UNCHANGED <<series, view, rendered, fetchVars, hookVars, aiSpec, page, mock>>

PostChatResolve == PostChatSettle("response")

PostChatReject == PostChatSettle("apology")

(****************************** useMockIfNeeded ****************************)
\* The four useMockIfNeeded calls of SleepCoachDashboard
MockHooks == {"summary", "segments", "hr", "coach"}

\* useState(fallback), useState(true), useState(null); the mount effect has
\* called each fetcher.  setters collects the setter calls made after unmount.
MockInit ==
    mock = [mounted |-> TRUE,
            hooks   |-> [h \in MockHooks |->
                            [data |-> "fallback", loading |-> TRUE, error |-> "null",
                             fetch |-> "pending"]],
            setters |-> {}]

\* await fetcher() resolved: if (!mounted) return; setData(res); and in
\* finally, if (mounted) setLoading(false)
MockResolve(h) ==
    /\ mock.hooks[h].fetch = "pending"
    /\ mock' = IF mock.mounted
               THEN [mock EXCEPT !.hooks[h] = [data |-> "fetched", loading |-> FALSE,
                                               error |-> @.error, fetch |-> "resolved"]]
               ELSE [mock EXCEPT !.hooks[h].fetch = "resolved"]
    /\ UNCHANGED <<series, view, rendered, fetchVars, hookVars, aiSpec, page, chat>>

\* await fetcher() rejected: catch (e) { setError(...) } whether mounted or
\* not; in finally, if (mounted) setLoading(false).  React drops a state
\* update of an unmounted component, the call is recorded in setters.
MockReject(h) ==
    /\ mock.hooks[h].fetch = "pending"
    /\ mock' = IF mock.mounted
               THEN [mock EXCEPT !.hooks[h] = [data |-> @.data, loading |-> FALSE,
                                               error |-> "message", fetch |-> "rejected"]]
               ELSE [mock EXCEPT !.hooks[h].fetch = "rejected",
                                 !.setters = @ \cup {<<h, "setError">>}]
    /\ UNCHANGED <<series, view, rendered, fetchVars, hookVars, aiSpec, page, chat>>

\* the component unmounts: every effect's cleanup sets its mounted to false
MockUnmount ==
    /\ mock.mounted
    /\ mock' = [mock EXCEPT !.mounted = FALSE]
    /\ UNCHANGED <<series, view, rendered, fetchVars, hookVars, aiSpec, page, chat>>

(******************* useHealthData and the dashboard's sync ****************)
\* Clicks on the dashboard's SyncButton that a run follows
MaxClicks == 2

\* SyncButton: useState('idle'); no reset timer is pending.  The dashboard
\* renders two SyncButtons wired to handleSync, of which the viewport shows
\* one; the model follows the visible one.
SyncButtonInit == btn = [syncState |-> "idle", timers |-> 0]

HookInit ==
    /\ hk = [sleepRows |-> <<>>, hr7 |-> <<>>, hrIntra |-> <<>>, steps7 |-> <<>>,
             cal7 |-> <<>>, loading |-> TRUE, error |-> "null"]
    /\ hmount = "idle"
    /\ hsync = [k \in 1..MaxClicks |-> "idle"]
    /\ toasts = <<>>
    /\ SyncButtonInit

\* <button disabled={syncState === 'syncing'}>
SyncButtonDisabled == btn.syncState = "syncing"

\* SyncButton.handleSync after await onSync() resolved: setSyncState('success');
\* setTimeout(() => setSyncState('idle'), 2000).  OuraAppleDashboard.handleSync
\* catches its own errors, so onSync() never rejects and SyncButton's catch
\* branch cannot run under this wiring.
OnSyncResolved == btn' = [syncState |-> "success", timers |-> btn.timers + 1]

\* a reset timer fires: setSyncState('idle')
ResetTimerFire ==
    /\ btn.timers > 0
    /\ btn' = [syncState |-> "idle", timers |-> btn.timers - 1]
    /\ UNCHANGED <<appVars, otherVars, srv, origin, lastPublisher, lastFetch, hk, hmount,
                   hsync, toasts>>

\* fetchData up to its await: setLoading(true); setError(null); the five
\* requests are issued together
FetchDataStart == hk' = [hk EXCEPT !.loading = TRUE, !.error = "null"]

\* fetchData after Promise.all resolved: the five setters, then finally
\* setLoading(false)
FetchDataResolve(round) ==
    /\ hk' = [sleepRows |-> ServerData("sleep", srv), hr7 |-> ServerData("hr7", srv),
              hrIntra |-> ServerData("hrIntra", srv), steps7 |-> ServerData("steps", srv),
              cal7 |-> ServerData("cal", srv), loading |-> FALSE, error |-> hk.error]
    /\ origin' = [n \in SeriesNames |-> round]
    /\ lastPublisher' = round
    /\ lastFetch' = [round |-> round, requested |-> SeriesNames, failed |-> {}]

\* mutant: a failed fetch clears the series and leaves loading on
FetchDataReject_clears(round, F) ==
    /\ F # {}
    /\ hk' = [sleepRows |-> <<>>, hr7 |-> <<>>, hrIntra |-> <<>>, steps7 |-> <<>>,
              cal7 |-> <<>>, loading |-> hk.loading, error |-> "failed"]
    /\ lastFetch' = [round |-> round, requested |-> SeriesNames, failed |-> F]
    /\ UNCHANGED <<origin, lastPublisher>>

\* fetchData after Promise.all rejected: setError(message), then finally
\* setLoading(false); no series setter runs
FetchDataReject(round, F) ==
    /\ F # {}
    /\ hk' = [hk EXCEPT !.error = "failed", !.loading = FALSE]
    /\ lastFetch' = [round |-> round, requested |-> SeriesNames, failed |-> F]
    /\ UNCHANGED <<origin, lastPublisher>>

\* useEffect(() => { fetchData(); }, [])
HookMount ==
    /\ page = "OuraAppleDashboard"
    /\ hmount = "idle"
    /\ FetchDataStart
    /\ hmount' = "inflight"
    /\ UNCHANGED <<appVars, otherVars, srv, origin, lastPublisher, lastFetch, hsync, toasts,
                   btn>>

MountFetchResolve ==
    /\ hmount = "inflight"
    /\ FetchDataResolve(LoadRound)
    /\ hmount' = "settled"
    /\ UNCHANGED <<appVars, otherVars, srv, hsync, toasts, btn>>

MountFetchReject(F) ==
    /\ hmount = "inflight"
    /\ FetchDataReject(LoadRound, F)
    /\ hmount' = "settled"
    /\ UNCHANGED <<appVars, otherVars, srv, hsync, toasts, btn>>

\* The SyncButton is clicked (it is not disabled): setSyncState('syncing'), then
\* await onSync(), which is the dashboard's handleSync: toast.info(...), then
\* await postSync()
HandleSyncClick(k) ==
    /\ page = "OuraAppleDashboard"
    /\ ~SyncButtonDisabled
    /\ hsync[k] = "idle"
    /\ \A j \in 1..(k - 1) : hsync[j] # "idle"
    /\ btn' = [btn EXCEPT !.syncState = "syncing"]
    /\ hsync' = [hsync EXCEPT ![k] = "posting"]
    /\ toasts' = Append(toasts, "info")
    /\ UNCHANGED <<appVars, otherVars, srv, origin, lastPublisher, lastFetch, hk, hmount>>

\* postSync resolved: await refetch() starts a fetchData call
HookPostSyncResolve(k) ==
    /\ hsync[k] = "posting"
    /\ srv' = srv + 1
    /\ FetchDataStart
    /\ hsync' = [hsync EXCEPT ![k] = "fetching"]
    /\ UNCHANGED <<appVars, otherVars, origin, lastPublisher, lastFetch, hmount, toasts, btn>>

\* postSync rejected: catch (error) { toast.error(...) }; handleSync returns
\* normally and the SyncButton that awaited it goes on
HookPostSyncReject(k) ==
    /\ hsync[k] = "posting"
    /\ hsync' = [hsync EXCEPT ![k] = "failed"]
    /\ toasts' = Append(toasts, "error")
    /\ OnSyncResolved
    /\ UNCHANGED <<appVars, otherVars, srv, origin, lastPublisher, lastFetch, hk, hmount>>

\* the refetch settles; fetchData catches its own errors, so await refetch()
\* resolves either way and handleSync goes on to toast.success(...) and
\* returns to the SyncButton that awaited it
RefetchResolve(k) ==
    /\ hsync[k] = "fetching"
    /\ FetchDataResolve(k)
    /\ hsync' = [hsync EXCEPT ![k] = "done"]
    /\ toasts' = Append(toasts, "success")
    /\ OnSyncResolved
    /\ UNCHANGED <<appVars, otherVars, srv, hmount>>

RefetchReject(k, F) ==
    /\ hsync[k] = "fetching"
    /\ FetchDataReject(k, F)
    /\ hsync' = [hsync EXCEPT ![k] = "done"]
    /\ toasts' = Append(toasts, "success")
    /\ OnSyncResolved
    /\ UNCHANGED <<appVars, otherVars, srv, hmount>>

Init ==
    /\ sleepRows = <<>>
    /\ hr7 = <<>>
    /\ hrIntra = <<>>
    /\ steps7 = <<>>
    /\ cal7 = <<>>
    /\ model = "initial"
    /\ chatLog = <<>>
    /\ view = RenderView(<<>>, <<>>, <<>>, <<>>, <<>>, Null)
    /\ rendered = TRUE
    /\ loadPc = "model"
    /\ sync = [k \in 1..MaxSyncs |-> "idle"]
    /\ srv = 0
    /\ origin = [n \in SeriesNames |-> NoRound]
    /\ lastPublisher = NoRound
    /\ lastFetch = NoFetch
    /\ aiSpec = Null
    /\ page = "App"
    /\ HookInit
    /\ ChatInit
    /\ MockInit

Next ==
    \/ LoadModelResolve
    \/ LoadModelReject
    \/ LoadResolve
    \/ LoadReject
    \/ \E k \in 1..MaxSyncs : SyncClick(k)
    \/ \E k \in 1..MaxSyncs : PostSyncResolve(k)
    \/ \E k \in 1..MaxSyncs : PostSyncReject(k)
    \/ \E k \in 1..MaxSyncs : ReloadResolve(k)
    \/ \E k \in 1..MaxSyncs : \E F \in FailureSets : ReloadReject(k, F)

Spec == Init /\ [][Next]_vars

\* The second dashboard: useHealthData under OuraAppleDashboard
InitHook ==
    /\ sleepRows = <<>>
    /\ hr7 = <<>>
    /\ hrIntra = <<>>
    /\ steps7 = <<>>
    /\ cal7 = <<>>
    /\ model = "initial"
    /\ chatLog = <<>>
    /\ view = RenderView(<<>>, <<>>, <<>>, <<>>, <<>>, Null)
    /\ rendered = TRUE
    /\ loadPc = "done"
    /\ sync = [k \in 1..MaxSyncs |-> "idle"]
    /\ srv = 0
    /\ origin = [n \in SeriesNames |-> NoRound]
    /\ lastPublisher = NoRound
    /\ lastFetch = NoFetch
    /\ aiSpec = Null
    /\ page = "OuraAppleDashboard"
    /\ HookInit
    /\ ChatInit
    /\ MockInit

NextHook ==
    \/ HookMount
    \/ MountFetchResolve
    \/ \E F \in FailureSets : MountFetchReject(F)
    \/ \E k \in 1..MaxClicks : HandleSyncClick(k)
    \/ \E k \in 1..MaxClicks : HookPostSyncResolve(k)
    \/ \E k \in 1..MaxClicks : HookPostSyncReject(k)
    \/ \E k \in 1..MaxClicks : RefetchResolve(k)
    \/ \E k \in 1..MaxClicks : \E F \in FailureSets : RefetchReject(k, F)
    \/ ResetTimerFire

SpecHook == InitHook /\ [][NextHook]_vars

\* OllamaChat inside a mounted OuraAppleDashboard
NextChat ==
    \/ \E t \in ChatTexts : ChatType(t)
    \/ ChatEnterKey
    \/ ChatSendClick
    \/ PostChatResolve
    \/ PostChatReject

SpecChat == InitHook /\ [][NextChat]_vars

\* The third dashboard: SleepCoachDashboard with its useMockIfNeeded calls
InitMock ==
    /\ sleepRows = <<>>
    /\ hr7 = <<>>
    /\ hrIntra = <<>>
    /\ steps7 = <<>>
    /\ cal7 = <<>>
    /\ model = "initial"
    /\ chatLog = <<>>
    /\ view = RenderView(<<>>, <<>>, <<>>, <<>>, <<>>, Null)
    /\ rendered = TRUE
    /\ loadPc = "done"
    /\ sync = [k \in 1..MaxSyncs |-> "idle"]
    /\ srv = 0
    /\ origin = [n \in SeriesNames |-> NoRound]
    /\ lastPublisher = NoRound
    /\ lastFetch = NoFetch
    /\ aiSpec = Null
    /\ page = "SleepCoachDashboard"
    /\ HookInit
    /\ ChatInit
    /\ MockInit

NextMock ==
    \/ \E h \in MockHooks : MockResolve(h)
    \/ \E h \in MockHooks : MockReject(h)
    \/ MockUnmount

SpecMock == InitMock /\ [][NextMock]_vars

\* A page mounts one of the two dashboards
InitPage == Init \/ InitHook

NextPage == Next \/ NextHook

SpecPage == InitPage /\ [][NextPage]_vars

(*************************** bounded input families ************************)
MaxLen == 2
MaxRows == 3

SeqsUpTo(S, n) == UNION {[1..k -> S] : k \in 0..n}

GeneralInputs ==
    [rows  |-> SeqsUpTo({SleepRow(1, "Light sleep", 300), SleepRow(2, "Deep sleep", 240),
                         SleepRow(2, "Awake", 60)}, MaxLen),
     hr    |-> SeqsUpTo({HrRec(2, Num(90)), HrRec(3, Null)}, MaxLen),
     steps |-> SeqsUpTo({StepsRec(2, Num(4)), StepsRec(3, Undef)}, MaxLen),
     intra |-> {<<>>},
     cal   |-> {<<>>},
     ai    |-> {Null}]

HrInputs ==
    [rows  |-> {<<>>, <<SleepRow(2, "Light sleep", 480)>>},
     hr    |-> SeqsUpTo({HrRec(d, a) : d \in {1, 2},
                                       a \in {Null, Num(60), Num(70), Num(100)}}, MaxLen),
     steps |-> {<<>>},
     intra |-> {<<>>},
     cal   |-> {<<>>},
     ai    |-> {Null}]

StepsInputs ==
    [rows  |-> {<<>>, <<SleepRow(1, "REM sleep", 240), SleepRow(2, "Light sleep", 600)>>},
     hr    |-> {<<>>, <<HrRec(1, Num(60)), HrRec(2, Num(64))>>},
     steps |-> SeqsUpTo({StepsRec(1, v) :
                            v \in {Undef, Null, Num(3), Num(7), Num(13), Num(17),
                                   Num(23), Num(27)}}, MaxLen),
     intra |-> {<<>>},
     cal   |-> {<<>>},
     ai    |-> {Null}]

HistoryInputs ==
    [rows  |-> SeqsUpTo({SleepRow(1, "Light sleep", 221), SleepRow(2, "Light sleep", 269),
                         SleepRow(3, "Light sleep", 317), SleepRow(1, "Light sleep", 269),
                         SleepRow(2, "Light sleep", 317), SleepRow(3, "Light sleep", 221)},
                        MaxRows),
     hr    |-> {<<>>},
     steps |-> {<<>>},
     intra |-> {<<>>},
     cal   |-> {<<>>},
     ai    |-> {Null}]

\* Sleep rows of many dates: every set of days up to MaxDay, ascending,
\* descending or odd days first, once or twice over
MaxDay == 8

RowsOfDays(days) == [i \in 1..Len(days) |-> SleepRow(days[i], "Light sleep", 400 + 10 * days[i])]

Reverse(s) == [i \in 1..Len(s) |-> s[Len(s) + 1 - i]]

DayOrders(S) ==
    {SortAsc(S), Reverse(SortAsc(S)),
     SortAsc({d \in S : d % 2 = 1}) \o SortAsc({d \in S : d % 2 = 0})}

DateInputs ==
    [rows  |-> UNION {{RowsOfDays(o), RowsOfDays(o \o o)} :
                        o \in UNION {DayOrders(S) : S \in SUBSET (1..MaxDay)}},
     hr    |-> {<<>>},
     steps |-> {<<>>},
     intra |-> {<<>>},
     cal   |-> {<<>>},
     ai    |-> {Null}]

\* The last records of the four KPI series, present, null and missing
KpiInputs ==
    [rows  |-> {<<>>, <<SleepRow(2, "Light sleep", 250), SleepRow(1, "Deep sleep", 500),
                        SleepRow(2, "Deep sleep", 92), SleepRow(2, "REM sleep", 95),
                        SleepRow(2, "Awake", 14)>>},
     hr    |-> {<<>>, <<HrRec(1, Num(58)), HrRec(2, Null)>>, <<HrRec(1, Null), HrRec(2, Num(61))>>},
     steps |-> {<<>>, <<StepsRec(1, Num(9)), StepsRec(2, Null)>>,
                <<StepsRec(1, Undef), StepsRec(2, Num(8))>>},
     intra |-> {<<>>},
     cal   |-> SeqsUpTo({CalRec(1, Num(2000)), CalRec(2, Null), CalRec(2, Undef)}, MaxLen),
     ai    |-> {Null}]

\* Values a JSON answer can hold where a chart expects a number
ChartValues == {Num(0), Num(5), Null, Str(<<>>), Str(<<"1", "2">>), Str(<<"a">>)}

IntraInputs ==
    [rows  |-> {<<>>},
     hr    |-> {<<>>, <<HrRec(1, Num(58)) @@ [min_bpm |-> Num(50), max_bpm |-> Null]>>},
     steps |-> {<<>>},
     intra |-> SeqsUpTo({IntraSample(t, a) : t \in {1}, a \in ChartValues}
                            \cup {[ts |-> 2]}, MaxLen),
     cal   |-> {<<>>},
     ai    |-> {Null}]

\* Chart specs the coach can answer with
AiSpecs ==
    [k        : {"spec"},
     type     : {"line", "bar", "stackedBar"},
     stacked  : BOOLEAN,
     labels   : {Undef, Arr(<<"Mon", "Tue">>)},
     datasets : {Undef} \cup
                {Arr(<<[label |-> "A", data |-> d]>>) :
                    d \in {Undef} \cup {Arr(s) : s \in SeqsUpTo(ChartValues, MaxLen)}}]

AiInputs ==
    [rows  |-> {<<>>},
     hr    |-> {<<>>},
     steps |-> {<<>>},
     intra |-> {<<>>},
     cal   |-> {<<>>},
     ai    |-> AiSpecs]

\* A steady week of steps that ends with a much more active day
WeekSteps ==
    [i \in 1..7 |-> StepsRec(i, Num(IF i < 7 THEN 8000 ELSE 20000))]

ExampleInputs ==
    [rows  |-> {<<>>, <<SleepRow(7, "Light sleep", 480)>>},
     hr    |-> {<<>>},
     steps |-> {WeekSteps},
     intra |-> {<<>>},
     cal   |-> {<<>>},
     ai    |-> {Null}]

InputFamilies ==
    {GeneralInputs, HrInputs, StepsInputs, HistoryInputs, DateInputs, KpiInputs,
     IntraInputs, AiInputs, ExampleInputs}

\* The scoring engine on its own: any bounded snapshot, then the render
InitScore ==
    /\ \E f \in InputFamilies :
          /\ sleepRows \in f.rows
          /\ hr7 \in f.hr
          /\ steps7 \in f.steps
          /\ hrIntra \in f.intra
          /\ cal7 \in f.cal
          /\ aiSpec \in f.ai
    /\ view = RenderView(<<>>, <<>>, <<>>, <<>>, <<>>, Null)
    /\ rendered = FALSE
    /\ model = "initial"
    /\ chatLog = <<>>
    /\ loadPc = "done"
    /\ sync = [k \in 1..MaxSyncs |-> "idle"]
    /\ srv = 0
    /\ origin = [n \in SeriesNames |-> NoRound]
    /\ lastPublisher = NoRound
    /\ lastFetch = NoFetch
    /\ page = "App"
    /\ HookInit
    /\ ChatInit
    /\ MockInit

NextScore == Render

SpecScore == InitScore /\ [][NextScore]_vars

(***************************************************************************)
(* Properties of the scoring engine (checked under SpecScore)              *)
(***************************************************************************)
RECURSIVE SumOver(_, _)
SumOver(f, S) ==
    IF S = {} THEN 0
    ELSE LET i == CHOOSE x \in S : TRUE IN f[i] + SumOver(f, S \ {i})

\* p is num/den rounded to the nearest integer, halves upwards (den > 0)
IsRounded(p, num, den) == 2 * den * p - den <= 2 * num /\ 2 * num < 2 * den * p + den

HasAbsentHr == \E i \in 1..Len(hr7) : ~Present(hr7[i].avg_bpm)
HasAbsentSteps == \E i \in 1..Len(steps7) : ~Present(steps7[i].steps)

\* C1: for every combination of sleep rows, HR records and steps records
\* (empty lists and absent avg_bpm / steps included) the rendered readiness
\* value is an integer in [0, 100].
C1_ReadinessInRange == rendered => view.readiness \in 0..100

C1_Witness ==
    /\ rendered
    /\ sleepRows # <<>>
    /\ HasAbsentHr
    /\ HasAbsentSteps
    /\ view.readiness \in 1..99

\* The steps mapping as the specification words it, on rel = a/b in
\* hundredths (b > 0); a NaN rel matches no branch.
ClaimStepsScore(r) ==
    CASE IsNaN(r) -> 100
      [] ~IsNaN(r) /\ 100 * r.n > 135 * r.d -> 80
      [] ~IsNaN(r) /\ 100 * r.n <= 135 * r.d /\ 100 * r.n < 60 * r.d -> 86
      [] ~IsNaN(r) /\ 100 * r.n <= 135 * r.d /\ 100 * r.n >= 60 * r.d
            /\ (100 * r.n < 85 * r.d \/ 100 * r.n > 115 * r.d) -> 94
      [] OTHER -> 100

\* The rel values the two scorers meet in the current snapshot
RelsInPlay ==
    LET ds == sleepDatesOf(sleepRows)
    IN  {rel(steps7)} \cup {projRel(hr7, steps7, ds[i]) : i \in 1..Len(ds)}

\* A grid of rel values around the breakpoints
RelGrid ==
    {Q(k, 100) : k \in {0, 59, 60, 61, 84, 85, 86, 100, 114, 115, 116, 134, 135, 136, 200}}

\* Both copies of the cascade agree with the stated mapping on the grid
CascadeOnGrid ==
    \A r \in RelGrid :
        /\ stepsScoreOf(r) = Q(ClaimStepsScore(r), 100)
        /\ projSt(r) = Q(ClaimStepsScore(r), 100)

\* C2: the steps component is 0.80 if rel > 1.35, else 0.86 if rel < 0.60,
\* else 0.94 if rel < 0.85 or rel > 1.15, else 1.00 (so 0.94 at rel = 0.60
\* and 1.35, 1.00 at rel = 0.85 and 1.15), with rel = 1 when stepsAvg is 0,
\* and the headline scorer and the projection's per-day scorer apply the
\* same mapping.
C2_StepsMapping ==
    rendered =>
        /\ \A r \in RelsInPlay :
              /\ stepsScoreOf(r) = Q(ClaimStepsScore(r), 100)
              /\ projSt(r) = Q(ClaimStepsScore(r), 100)
        /\ CascadeOnGrid
        /\ stepsScoreOf(Q(60, 100)) = Q(94, 100)
        /\ stepsScoreOf(Q(135, 100)) = Q(94, 100)
        /\ stepsScoreOf(Q(85, 100)) = QInt(1)
        /\ stepsScoreOf(Q(115, 100)) = QInt(1)
        /\ (SumSeq(stepsVals(steps7)) = 0 => rel(steps7) = QInt(1))
        /\ view.readiness =
              composite(sleepScore(sleepRows), hrScore(hr7),
                        Q(ClaimStepsScore(rel(steps7)), 100))

C2_Witness ==
    /\ rendered
    /\ rel(steps7) = Q(60, 100)
    /\ stepsScore(steps7) = Q(94, 100)
    /\ \E i \in 1..Len(sleepDatesOf(sleepRows)) :
          /\ QGt(projRel(hr7, steps7, sleepDatesOf(sleepRows)[i]), Q(135, 100))
          /\ projSt(projRel(hr7, steps7, sleepDatesOf(sleepRows)[i])) = Q(80, 100)

PresentHr == {i \in 1..Len(hr7) : Present(hr7[i].avg_bpm)}
PresentHrSum == SumOver([i \in 1..Len(hr7) |-> hr7[i].avg_bpm.v], PresentHr)
LastHrPresent == Len(hr7) > 0 /\ Present(hr7[Len(hr7)].avg_bpm)

\* n times the excess of yesterday over weeklyAvg, n the number of readings
ExcessTimesN == hr7[Len(hr7)].avg_bpm.v * Cardinality(PresentHr) - PresentHrSum

\* C3: hrScore = clamp(1 - (yesterday - weeklyAvg)/20, 0, 1) with yesterday
\* the last HR record's avg_bpm, falling back to weeklyAvg when it is absent
\* or the series is empty: 1 when yesterday <= weeklyAvg or absent, lower by
\* 1/20 per bpm of excess, 0 from an excess of 20 bpm on.
C3_HrScore ==
    rendered =>
        /\ (~LastHrPresent => hrScore(hr7) = QInt(1))
        /\ (LastHrPresent /\ ExcessTimesN <= 0 => hrScore(hr7) = QInt(1))
        /\ (LastHrPresent /\ ExcessTimesN >= 20 * Cardinality(PresentHr)
               => hrScore(hr7) = QInt(0))
        /\ (LastHrPresent /\ ExcessTimesN > 0
               /\ ExcessTimesN < 20 * Cardinality(PresentHr)
               => hrScore(hr7) = Q(20 * Cardinality(PresentHr) - ExcessTimesN,
                                   20 * Cardinality(PresentHr)))

C3_Witness ==
    /\ rendered
    /\ LastHrPresent
    /\ ExcessTimesN > 0
    /\ ExcessTimesN < 20 * Cardinality(PresentHr)
    /\ QLt(QInt(0), hrScore(hr7))
    /\ QLt(hrScore(hr7), QInt(1))

\* C4: weeklyAvg is the mean of the present avg_bpm values only (absent
\* ones are in neither the sum nor the count) and 0 when there is none.
C4_WeeklyAvg ==
    rendered =>
        weeklyAvg(hr7) =
            IF PresentHr = {} THEN QInt(0)
            ELSE Q(PresentHrSum, Cardinality(PresentHr))

C4_Witness ==
    /\ rendered
    /\ HasAbsentHr
    /\ Cardinality(PresentHr) >= 1
    /\ PresentHrSum > 0
    /\ weeklyAvg(hr7) = Q(PresentHrSum, Cardinality(PresentHr))

\* The HR and steps values the headline scorer reads for the last aligned date
headlineHrInput(hr) == IF Len(hr) # 0 THEN hr[Len(hr)].avg_bpm ELSE Undef
headlineStepsInput(steps) == IF Len(steps) # 0 THEN stepsVals(steps)[Len(steps)] ELSE 0

\* The HR and steps values the projection's per-day scorer reads for date d
projHrInput(hr, d) ==
    IF hrIdx(hr, d) < Len(hr) THEN hr[hrIdx(hr, d) + 1].avg_bpm ELSE Undef
projStepsInput(hr, steps, d) ==
    IF hrIdx(hr, d) < Len(steps) THEN OrZero(steps[hrIdx(hr, d) + 1].steps)
    ELSE IF Len(steps) # 0 THEN OrZero(steps[Len(steps)].steps) ELSE 0

\* What the records of date d say: the avg_bpm values, and the steps values
HrOfDate(d) == {hr7[i].avg_bpm : i \in {j \in 1..Len(hr7) : hr7[j].date = d}}
StepsOfDate(d) ==
    {OrZero(steps7[i].steps) : i \in {j \in 1..Len(steps7) : steps7[j].date = d}}

MatchesHr(x, d) ==
    IF HrOfDate(d) = {} THEN ~Present(x) ELSE x \in HrOfDate(d)
MatchesSteps(x, d) ==
    IF StepsOfDate(d) = {} THEN x = 0 ELSE x \in StepsOfDate(d)

\* C5: a score computed for an aligned date d (the headline score for the
\* most recent aligned date, every per-day score of the projection) reads
\* the HR and steps records whose date is d: HR absent when there is no such
\* record, steps 0 when there is none.
C5_InputsMatchedByDate ==
    rendered =>
        /\ (lastDate(sleepRows) # <<>> =>
               /\ MatchesHr(headlineHrInput(hr7), lastDate(sleepRows)[1])
               /\ MatchesSteps(headlineStepsInput(steps7), lastDate(sleepRows)[1]))
        /\ \A i \in 1..Len(sleepDatesOf(sleepRows)) :
               /\ MatchesHr(projHrInput(hr7, sleepDatesOf(sleepRows)[i]),
                            sleepDatesOf(sleepRows)[i])
               /\ MatchesSteps(projStepsInput(hr7, steps7, sleepDatesOf(sleepRows)[i]),
                               sleepDatesOf(sleepRows)[i])

\* C6: with the sleep, HR and steps series all empty the readiness value is
\* 50: sleepScore 0, hrScore 1 (weeklyAvg = yesterday = 0), stepsScore 1
\* (rel = 1).
C6_EmptyDefault ==
    (rendered /\ sleepRows = <<>> /\ hr7 = <<>> /\ steps7 = <<>>) =>
        /\ view.readiness = 50
        /\ sleepScore(sleepRows) = QInt(0)
        /\ weeklyAvg(hr7) = QInt(0)
        /\ yesterday(hr7) = QInt(0)
        /\ hrScore(hr7) = QInt(1)
        /\ rel(steps7) = QInt(1)
        /\ stepsScore(steps7) = QInt(1)

C6_Witness ==
    rendered /\ sleepRows = <<>> /\ hr7 = <<>> /\ steps7 = <<>> /\ view.readiness = 50

Hist == hist(sleepRows, hr7, steps7)

\* The three forecasts of the rendered projection series
Forecasts == SliceLast(view.projData, 3)

IsProjection(p, prev, mean) == IsRounded(p, 6 * prev + 4 * mean, 10)

\* C9: lastR is the last score of the history (70 if empty), meanR the
\* rounded mean (70 if empty), proj1 = round(0.6*lastR + 0.4*meanR),
\* proj2 = round(0.6*proj1 + 0.4*meanR), proj3 = round(0.6*proj2 + 0.4*meanR);
\* an empty history gives 70, 70, 70.
C9_ProjectionRecurrence ==
    rendered =>
        LET h == Hist
            sum == SumSeq(h)
            f == Forecasts
            l == IF h = <<>> THEN 70 ELSE h[Len(h)]
            m == IF h = <<>> THEN 70
                 ELSE CHOOSE x \in 0..100 : IsRounded(x, sum, Len(h))
        IN  /\ lastR(h) = l
            /\ meanR(h) = m
            /\ Len(view.projData) >= 3
            /\ IsProjection(f[1], l, m)
            /\ IsProjection(f[2], f[1], m)
            /\ IsProjection(f[3], f[2], m)
            /\ (h = <<>> => f = <<70, 70, 70>>)

C9_Witness ==
    /\ rendered
    /\ LET h == Hist
       IN  /\ Len(h) >= 2
           /\ lastR(h) # meanR(h)
           /\ Forecasts[1] # Forecasts[2]

\* C10 as stated: the history [70, 75, 80] gives the forecasts 78, 77, 77.
C10_ExampleAsStated ==
    (rendered /\ Hist = <<70, 75, 80>>) => Forecasts = <<78, 77, 77>>

\* C10 (amended): the history [70, 75, 80] (lastR = 80, meanR = 75) gives
\* the forecasts 78, 77 and 76: round(0.6*77 + 0.4*75) = round(76.2) = 76.
C10_Example ==
    (rendered /\ Hist = <<70, 75, 80>>) =>
        /\ lastR(<<70, 75, 80>>) = 80
        /\ meanR(<<70, 75, 80>>) = 75
        /\ Forecasts = <<78, 77, 76>>

C10_Witness ==
    rendered /\ Hist = <<70, 75, 80>> /\ view.projData = <<70, 75, 80, 78, 77, 76>>

\* C11 as stated: for any inputs the projection series has exactly 6
\* points, with as many labels as values.
C11_SixPointsAsStated ==
    rendered => Len(view.projData) = 6 /\ Len(view.projLabels) = 6

\* C11 (amended): with n aligned sleep dates the projection series has
\* min(3, n) + 3 points (6 when n >= 3): the last min(3, n) historical scores
\* with their date labels, then the 3 forecasts labelled D+1, D+2, D+3; the
\* label sequence and the value sequence have the same length.
C11_ProjectionShape ==
    rendered =>
        LET ds == view.sleepDates
            n == Len(ds)
            k == IF n < 3 THEN n ELSE 3
            h == Hist
            chart == view.charts.projection
        IN  /\ Len(view.projData) = k + 3
            /\ Len(view.projLabels) = Len(view.projData)
            /\ \A i \in 1..k :
                  /\ view.projLabels[i] = DateLabel(ds[n - k + i])
                  /\ view.projData[i] = h[n - k + i]
            /\ \A j \in 1..3 : view.projLabels[k + j] = ForecastLabel(j)
            /\ (n >= 3 => Len(view.projData) = 6)
            /\ Len(chart.labels) = k + 3
            /\ Len(chart.datasets[1].data) = k + 3

C11_Witness ==
    /\ rendered
    /\ Len(view.sleepDates) = 2
    /\ Len(view.projData) = 5
    /\ view.projLabels[2].kind = "date"
    /\ view.projLabels[3] = ForecastLabel(1)

SleepStages == {"Light sleep", "Deep sleep", "REM sleep"}

IsSleepStage(r) == r.stage \in SleepStages

\* The minutes of the rows of date d whose stage is Light, Deep or REM
StageMinutes(d) ==
    SumOver([i \in 1..Len(sleepRows) |-> sleepRows[i].mins],
            {i \in 1..Len(sleepRows) : sleepRows[i].date = d /\ IsSleepStage(sleepRows[i])})

\* C12: for every aligned date totalSleepMinutes is the sum of the minutes of
\* the rows of that date whose stage is Light, Deep or REM (0 when there is
\* none), and the rows of any other stage change neither the total, nor the
\* sleep component, nor the readiness value: all three are what they are
\* without those rows.
C12_SleepStagesOnly ==
    rendered =>
        /\ \A i \in 1..Len(view.sleepDates) :
              sleepTotal(sleepRows, view.sleepDates[i]) = StageMinutes(view.sleepDates[i])
        /\ sleepMin(sleepRows) = sleepMin(SelectSeq(sleepRows, IsSleepStage))
        /\ sleepScore(sleepRows) = sleepScore(SelectSeq(sleepRows, IsSleepStage))
        /\ view.readiness = readiness(SelectSeq(sleepRows, IsSleepStage), hr7, steps7)

\* Totals the sleep component is compared at
MinuteGrid == {0, 1, 240, 479, 480, 481, 960}

OneNight(m) == <<SleepRow(1, "Light sleep", m)>>

\* C13: with HR and steps fixed, sleepScore = min(1, total/480) is strictly
\* increasing in the total on [0, 480] and 1 for every total >= 480; the
\* readiness value never decreases when the total increases and is the same
\* for all totals >= 480.
C13_SleepMonotone ==
    rendered =>
        LET t == sleepMin(sleepRows)
            s == sleepScore(sleepRows)
            h == hrScore(hr7)
            st == stepsScore(steps7)
            readinessAt(m) == composite(sleepScore(OneNight(m)), h, st)
        IN  /\ s = (IF t >= 480 THEN QInt(1) ELSE Q(t, 480))
            /\ view.readiness = composite(s, h, st)
            /\ \A m \in MinuteGrid :
                  /\ sleepMin(OneNight(m)) = m
                  /\ (t < m /\ m <= 480 => QLt(s, sleepScore(OneNight(m))))
                  /\ (m < t /\ t <= 480 => QLt(sleepScore(OneNight(m)), s))
                  /\ (t <= m => view.readiness <= readinessAt(m))
                  /\ (m <= t => readinessAt(m) <= view.readiness)
                  /\ (t >= 480 /\ m >= 480 =>
                        /\ sleepScore(OneNight(m)) = s
                        /\ readinessAt(m) = view.readiness)

C13_Witness ==
    /\ rendered
    /\ sleepMin(sleepRows) = 437
    /\ sleepScore(sleepRows) = Q(437, 480)
    /\ view.readiness < readiness(OneNight(480), hr7, steps7)
    /\ readiness(OneNight(480), hr7, steps7) = readiness(OneNight(600), hr7, steps7)

InputDates == {sleepRows[i].date : i \in 1..Len(sleepRows)}

\* C14: for sleep rows in any order and with any repetition of dates,
\* sleepDates is strictly ascending (so duplicate-free), has at most 7
\* entries, which are the 7 greatest distinct dates of the input (all of them
\* when there are fewer), and is empty exactly when the input is empty.
C14_AlignedDates ==
    rendered =>
        LET ds == view.sleepDates
            shown == {ds[i] : i \in 1..Len(ds)}
        IN  /\ \A i \in 1..Len(ds) : \A j \in 1..Len(ds) : i < j => ds[i] < ds[j]
            /\ Len(ds) <= 7
            /\ Len(ds) = (IF Cardinality(InputDates) < 7 THEN Cardinality(InputDates) ELSE 7)
            /\ shown \subseteq InputDates
            /\ \A d \in InputDates \ shown : \A e \in shown : d < e
            /\ (ds = <<>> <=> sleepRows = <<>>)

C14_Witness ==
    /\ rendered
    /\ Cardinality(InputDates) >= 8
    /\ Len(view.sleepDates) = 7
    /\ Len(sleepRows) > Cardinality(InputDates)
    /\ sleepRows[1].date > sleepRows[2].date
    /\ view.sleepDates[1] = 2

StrictlyAscending(s) == \A i \in 1..Len(s) : \A j \in 1..Len(s) : i < j => s[i] < s[j]

\* C15: the date labels of the daily HR, steps and calories trend series
\* are duplicate-free, in ascending date order and at most 7 long, whatever
\* the input record lists.
C15_TrendLabels ==
    rendered =>
        \A c \in {view.charts.hr, view.charts.steps, view.charts.cal} :
            StrictlyAscending(c.labels) /\ Len(c.labels) <= 7

\* The charts of the rendered view, and the values they emit
ChartsShown ==
    {view.charts.sleepStages, view.charts.hr, view.charts.steps, view.charts.cal,
     view.charts.intraday, view.charts.sleepDebt, view.charts.projection, view.charts.ai}

Emitted(c) ==
    UNION {{c.datasets[i].data[j] : j \in 1..Len(c.datasets[i].data)} :
             i \in 1..Len(c.datasets)}

\* absent, empty or not a number
NotNumeric(x) == x.k # "num" /\ ~(x.k = "str" /\ x.s # <<>> /\ ToNumber(x).k = "num")

\* the data the coach's chart spec hands to dataset i of the AI chart
AiData(i) == OrEmpty(OrEmpty(aiSpec.datasets)[i].data)

\* C16: no value emitted by a chart shaper (TrendLine, StackedBar) is NaN:
\* every input value that is absent, empty or non-numeric is emitted as null.
C16_NoNaN ==
    rendered =>
        /\ \A c \in ChartsShown : NaNVal \notin Emitted(c)
        /\ \A j \in 1..Len(hrIntra) :
              NotNumeric(hrDayVals(hrIntra)[j]) =>
                  view.charts.intraday.datasets[1].data[j] = Null
        /\ aiSpec.k = "spec" =>
              \A i \in 1..Len(view.charts.ai.datasets) : \A j \in 1..Len(AiData(i)) :
                  NotNumeric(AiData(i)[j]) => view.charts.ai.datasets[i].data[j] = Null

\* in |-> out is a reshape of one value: null stays null, a number stays itself
ReshapedValue(in, out) ==
    /\ Nullish(in) => out = Null
    /\ in.k = "num" => out = in

\* C17: each chart shaper is a pure reshape: the labels are the input labels
\* in the same order, each series keeps its length and order, null/absent is
\* emitted as null and never as 0, and 0 is emitted as 0.
C17_PureReshape ==
    rendered =>
        /\ view.charts.sleepStages.labels = view.sleepDates
        /\ view.charts.hr.labels = hrLabels(hr7)
        /\ view.charts.intraday.labels = hrDayLabels(hrIntra)
        /\ Len(view.charts.intraday.datasets[1].data) = Len(hrIntra)
        /\ \A j \in 1..Len(hrIntra) :
              ReshapedValue(hrDayVals(hrIntra)[j], view.charts.intraday.datasets[1].data[j])
        /\ \A j \in 1..Len(hr7) :
              ReshapedValue(hr7[j].avg_bpm, view.charts.hr.datasets[1].data[j])
        /\ aiSpec.k = "spec" =>
              /\ view.charts.ai.labels = OrEmpty(aiSpec.labels)
              /\ Len(view.charts.ai.datasets) = Len(OrEmpty(aiSpec.datasets))
              /\ \A i \in 1..Len(view.charts.ai.datasets) :
                    /\ Len(view.charts.ai.datasets[i].data) = Len(AiData(i))
                    /\ \A j \in 1..Len(AiData(i)) :
                          ReshapedValue(AiData(i)[j], view.charts.ai.datasets[i].data[j])

AlignedDates == sleepDatesOf(sleepRows)

IsKpi(x) == x.kind \in {"--", "value"} /\ x.n \in Int

\* C18: for every combination of empty and non-empty series (absent
\* avg_bpm, absent steps, sleep dates without an HR or steps record
\* included) the KPIs, the readiness value, the sleep-debt series and the
\* projection are computed without a throw, and every score is a number.
C18_NeverThrowsNorNaN ==
    rendered =>
        /\ ~view.threw
        /\ ~IsNaN(sleepScore(sleepRows))
        /\ ~IsNaN(hrScore(hr7))
        /\ ~IsNaN(stepsScore(steps7))
        /\ \A i \in 1..Len(AlignedDates) :
              /\ ~IsNaN(projH(hr7, AlignedDates[i]))
              /\ ~IsNaN(projSt(projRel(hr7, steps7, AlignedDates[i])))
        /\ view.readiness \in Int
        /\ \A i \in 1..Len(view.projData) : view.projData[i] \in Int
        /\ \A x \in Emitted(view.charts.sleepDebt) \cup Emitted(view.charts.projection) :
              x.k = "num"
        /\ IsKpi(view.kpiSleepMin) /\ IsKpi(view.kpiHr)
        /\ IsKpi(view.kpiSteps) /\ IsKpi(view.kpiCal)

C18_Witness ==
    /\ rendered
    /\ ~view.threw
    /\ HasAbsentHr
    /\ HasAbsentSteps
    /\ \E i \in 1..Len(AlignedDates) :
          /\ IsNaN(projRel(hr7, steps7, AlignedDates[i]))
          /\ IndexOf(hrLabels(hr7), AlignedDates[i]) = -1
    /\ Len(view.projData) >= 4

\* C19: each headline KPI is "--" when its series is empty and is derived
\* from the series' last day alone when it is not; the HR KPI is "--" too
\* when the last HR record has no avg_bpm (it does not show 0).
C19_HeadlineKpis ==
    rendered =>
        /\ view.kpiSleepMin =
              (IF sleepRows = <<>> THEN Placeholder
               ELSE KpiValue(StageMinutes(CHOOSE d \in InputDates :
                                              \A e \in InputDates : e <= d), " min"))
        /\ view.kpiHr =
              (IF hr7 = <<>> THEN Placeholder
               ELSE IF ~Present(hr7[Len(hr7)].avg_bpm) THEN Placeholder
               ELSE KpiValue(hr7[Len(hr7)].avg_bpm.v, " bpm"))
        /\ view.kpiSteps =
              (IF steps7 = <<>> THEN Placeholder
               ELSE IF Present(steps7[Len(steps7)].steps)
                    THEN KpiValue(steps7[Len(steps7)].steps.v, "")
                    ELSE KpiValue(0, ""))
        /\ view.kpiCal =
              (IF cal7 = <<>> THEN Placeholder
               ELSE IF Present(cal7[Len(cal7)].kcal)
                    THEN KpiValue(cal7[Len(cal7)].kcal.v, " kcal")
                    ELSE KpiValue(0, " kcal"))

C19_Witness ==
    /\ rendered
    /\ hr7 # <<>> /\ ~Present(hr7[Len(hr7)].avg_bpm) /\ view.kpiHr = Placeholder
    /\ view.kpiSleepMin = KpiValue(437, " min")
    /\ view.kpiSteps.kind = "value"
    /\ view.kpiCal.kind = "value" /\ view.kpiCal.n > 0

\* The steps mean and ratio as the claim words them: absent counts as 0
ClaimStepsSum == SumOver([i \in 1..Len(steps7) |-> OrZero(steps7[i].steps)], 1..Len(steps7))
ClaimStepsAvg == IF Len(steps7) = 0 THEN QInt(0) ELSE Q(ClaimStepsSum, Len(steps7))
ClaimRel(last) == IF ClaimStepsSum = 0 THEN QInt(1) ELSE Q(last * Len(steps7), ClaimStepsSum)

\* C20: a steps record with an absent value contributes 0 to the rolling
\* mean and counts in its denominator, and an absent last-day value is 0
\* steps; in the headline scorer and in the projection's per-day scorer alike.
C20_AbsentStepsAsZero ==
    rendered =>
        /\ sAvg(steps7) = ClaimStepsAvg
        /\ rel(steps7) = ClaimRel(headlineStepsInput(steps7))
        /\ \A i \in 1..Len(AlignedDates) :
              /\ Len(steps7) # 0 => projSAvg(hr7, steps7, AlignedDates[i]) = ClaimStepsAvg
              /\ projRel(hr7, steps7, AlignedDates[i]) =
                    ClaimRel(projStepsInput(hr7, steps7, AlignedDates[i]))

\* C21 as worded: on six days of 8,000 steps followed by a day of 20,000
\* the mean is about 10286 and the ratio about 1.944, above 1.35, so the
\* steps score is 0.80.
C21_ExampleAsStated ==
    (rendered /\ steps7 = WeekSteps) =>
        /\ Round(sAvg(steps7)) = 10286
        /\ Round(QMul(QInt(1000), rel(steps7))) = 1944
        /\ QGt(rel(steps7), Q(135, 100))
        /\ stepsScore(steps7) = Q(8, 10)

\* C21: on six days of 8,000 steps followed by a day of 20,000 the mean is
\* 68000/7, about 9714, and the ratio 20000/9714, about 2.059, above 1.35,
\* so the steps score is 0.80: the unusually active day is scored as the
\* largest deviation.
C21_Example ==
    (rendered /\ steps7 = WeekSteps) =>
        /\ Round(sAvg(steps7)) = 9714
        /\ Round(QMul(QInt(1000), rel(steps7))) = 2059
        /\ QGt(rel(steps7), Q(135, 100))
        /\ stepsScore(steps7) = Q(8, 10)
        /\ view.readiness = composite(sleepScore(sleepRows), hrScore(hr7), Q(8, 10))

C21_Witness ==
    /\ rendered /\ steps7 = WeekSteps /\ sleepRows # <<>>
    /\ stepsScore(steps7) = Q(8, 10)
    /\ view.readiness = 96

\* n lies between a and b, ends included
Between(n, a, b) == (a <= n /\ n <= b) \/ (b <= n /\ n <= a)

\* C22: each forecast lies between the previous value and the historical
\* mean, ends included: the forecasts never move away from the mean and
\* never cross it, and each is an integer within 0..100.
C22_DampedApproach ==
    rendered =>
        LET h == Hist
            m == meanR(h)
            f == Forecasts
        IN  /\ Between(f[1], lastR(h), m)
            /\ Between(f[2], f[1], m)
            /\ Between(f[3], f[2], m)
            /\ \A k \in 1..3 : f[k] \in 0..100 /\ Abs(f[k] - m) <= Abs(lastR(h) - m)

C22_Witness ==
    /\ rendered
    /\ Abs(lastR(Hist) - meanR(Hist)) > 3
    /\ Abs(Forecasts[1] - meanR(Hist)) < Abs(lastR(Hist) - meanR(Hist))
    /\ Abs(Forecasts[3] - meanR(Hist)) < Abs(Forecasts[1] - meanR(Hist))

\* C23: with at least one aligned date, the last historical value of the
\* projection, the per-day score of the most recent aligned date, is the
\* headline readiness; also when the HR series is empty.
C23_LastHistoryIsHeadline ==
    (rendered /\ ~view.threw /\ Len(view.sleepDates) >= 1) =>
        view.projData[Len(view.projData) - 3] = view.readiness

(***************************************************************************)
(* Properties of the fetch boundary (checked under Spec)                   *)
(***************************************************************************)
\* The published value of a series of App
Published(n) ==
    CASE n = "sleep" -> sleepRows
      [] n = "hr7" -> hr7
      [] n = "hrIntra" -> hrIntra
      [] n = "steps" -> steps7
      [] n = "cal" -> cal7

\* C7: when one series request of a fetch round fails and the others
\* succeed, every series whose request succeeded is published with the data
\* that round fetched (only the failed one is left out); for the mount-time
\* load, for the reload in syncNow and for useHealthData.fetchData.
C7_FailureIsolated ==
    Cardinality(lastFetch.failed) = 1 =>
        \A n \in lastFetch.requested \ lastFetch.failed :
            /\ origin[n] = lastFetch.round
            /\ Published(n) = ServerData(n, srv)

NoFetchInFlight ==
    /\ loadPc = "done"
    /\ \A k \in 1..MaxSyncs : sync[k] \in {"idle", "done", "failed"}

\* C8: when a newer fetch round starts while an older one is in flight,
\* then once both have completed the five published series are those of the
\* round that published last, all five from that one round.
C8_NoMixedRounds ==
    (NoFetchInFlight /\ \A n \in SeriesNames : origin[n] # NoRound) =>
        \A n \in SeriesNames : origin[n] = lastPublisher

(***************************************************************************)
(* Properties of the two sync flows (checked under SpecPage and SpecHook)  *)
(***************************************************************************)
\* The five series useHealthData returns
HookSeries == <<hk.sleepRows, hk.hr7, hk.hrIntra, hk.steps7, hk.cal7>>

\* A step of App's k-th syncNow call
SyncNowStep(k) ==
    /\ (sync[k] # "reloading" /\ sync'[k] = "reloading") =>
            sync[k] = "posting" /\ srv' = srv + 1
    /\ (sync[k] = "posting" /\ sync'[k] = "failed") =>
            /\ series' = series
            /\ lastFetch' = lastFetch
            /\ chatLog' = Append(chatLog, "failed")
    /\ sync[k] = "failed" => sync'[k] = "failed"

\* A step of the dashboard's k-th handleSync call
HandleSyncStep(k) ==
    /\ (hsync[k] # "fetching" /\ hsync'[k] = "fetching") =>
            hsync[k] = "posting" /\ srv' = srv + 1
    /\ (hsync[k] = "posting" /\ hsync'[k] = "failed") =>
            /\ HookSeries' = HookSeries
            /\ lastFetch' = lastFetch
            /\ toasts' = Append(toasts, "error")
    /\ hsync[k] = "failed" => hsync'[k] = "failed"

\* C24: in syncNow and in handleSync alike, the reload requests are issued
\* only in the step in which postSync resolves (the backend has synced); a
\* call whose postSync rejects issues no reload then or later, leaves every
\* published series as it was, and reports the failure (a chat log line in
\* App, an error toast in the dashboard).
C24_ReloadOnlyAfterSync ==
    [][/\ \A k \in 1..MaxSyncs : SyncNowStep(k)
       /\ \A k \in 1..MaxClicks : HandleSyncStep(k)]_vars

C24_Witness ==
    /\ page = "App"
    /\ sync[1] = "failed"
    /\ lastFetch.round = LoadRound
    /\ chatLog = <<"syncing", "failed">>
    /\ sleepRows = ServerData("sleep", 0)

\* A fetchData call settles in this step with at least one request rejected
FetchRejects == lastFetch' # lastFetch /\ lastFetch'.failed # {}

\* A fetchData call starts in this step
FetchStarts ==
    \/ hmount = "idle" /\ hmount' = "inflight"
    \/ \E k \in 1..MaxClicks : hsync[k] = "posting" /\ hsync'[k] = "fetching"

\* C25: when a fetchData call settles with any of its five requests
\* rejected, it changes none of the five series, error becomes a non-null
\* message and loading ends false; the start of the next fetchData call
\* resets error to null.
C25_RejectedFetch ==
    [][/\ FetchRejects =>
            /\ HookSeries' = HookSeries
            /\ hk'.error # "null"
            /\ hk'.loading = FALSE
       /\ FetchStarts => hk'.error = "null"]_vars

C25_Witness ==
    /\ lastFetch.round = 1 /\ lastFetch.failed # {}
    /\ hk.error = "failed" /\ hk.loading = FALSE
    /\ hk.sleepRows = ServerData("sleep", 0) /\ hk.cal7 = ServerData("cal", 0)
    /\ srv = 1

\* The fetchData calls that have not settled
FetchesInFlight ==
    (IF hmount = "inflight" THEN 1 ELSE 0)
        + Cardinality({k \in 1..MaxClicks : hsync[k] = "fetching"})

\* C26: loading is true in every state in which at least one fetchData call
\* is in flight, also when the mount-time fetch and a refetch overlap; it is
\* false only when none is.
C26_LoadingWhileInFlight == FetchesInFlight >= 1 => hk.loading = TRUE

\* The k-th attempt ends in this step, and whether it failed: its postSync
\* rejected, or the reload that followed had a request rejected
AttemptEnds(k) == hsync[k] \in {"posting", "fetching"} /\ hsync'[k] \in {"done", "failed"}
AttemptFailed(k) == hsync'[k] = "failed" \/ lastFetch'.failed # {}

\* C27: a sync attempt that fails (postSync rejects, or the reload after it
\* fails) ends with the SyncButton in state 'error'; the button reaches
\* 'success', and the success toast is shown, only when both succeeded.
C27_ButtonReportsFailure ==
    [][\A k \in 1..MaxClicks :
          AttemptEnds(k) =>
              IF AttemptFailed(k)
              THEN btn'.syncState = "error" /\ toasts' # Append(toasts, "success")
              ELSE btn'.syncState = "success" /\ toasts' = Append(toasts, "success")]_vars

\* The onSync calls the SyncButton started that have not settled
OnSyncInFlight == {k \in 1..MaxClicks : hsync[k] \in {"posting", "fetching"}}

\* C28: while an onSync call the SyncButton started has not settled, the
\* button's state is 'syncing' and it is disabled, so two onSync calls of
\* one button never overlap; also when the reset timer of an earlier attempt
\* fires while a later attempt is in flight.
C28_NoOverlappingSync ==
    /\ OnSyncInFlight # {} => btn.syncState = "syncing" /\ SyncButtonDisabled
    /\ Cardinality(OnSyncInFlight) <= 1

(***************************************************************************)
(* Properties of OllamaChat (checked under SpecChat)                       *)
(***************************************************************************)
IsAiMessage(m) == m \in {"response", "apology"}

\* C29: at most one postChat request is in flight, and after the greeting
\* the message log alternates strictly: a user message, then exactly one AI
\* message (the response or the apology) before the next user message; the
\* one request in flight belongs to a last user message still unanswered.
C29_OneRequestAlternatingLog ==
    /\ chat.inflight <= 1
    /\ chat.messages[1] = "greeting"
    /\ \A i \in 2..Len(chat.messages) :
          IF i % 2 = 0 THEN chat.messages[i] = "user" ELSE IsAiMessage(chat.messages[i])
    /\ chat.inflight = 1 <=> chat.messages[Len(chat.messages)] = "user"
    /\ chat.inflight = 1 <=> chat.isLoading

C29_Witness ==
    /\ chat.messages = <<"greeting", "user", "apology", "user", "response", "user">>
    /\ chat.inflight = 1

(***************************************************************************)
(* Properties of useMockIfNeeded (checked under SpecMock)                  *)
(***************************************************************************)
\* C30: once the component has unmounted, a fetch that settles later, by
\* resolving or by rejecting, calls none of setData, setError, setLoading.
C30_NoSetterAfterUnmount == mock.setters = {}

====
